---- MODULE Spec2Model ----
(***************************************************************************)
(* Model of src/slice_transform.rs: the adapter between a host-language    *)
(* SliceTransformFns implementation and the engine's C callback table.     *)
(*                                                                         *)
(* The host creates handles (create, create_fixed_prefix, create_noop),    *)
(* moves them into an engine configuration or discards them; engine        *)
(* threads call the five registered entry points through the callback      *)
(* slots; the engine destroys a handle through the destructor slot.        *)
(***************************************************************************)
EXTENDS Integers, Sequences, FiniteSets, TLC

\* ------------------------------------------------------------------ bounds
MaxHandles == 2      \* handles the host constructs
NumThreads == 2      \* engine worker threads
MaxKeyLen  == 2      \* longest key the engine hands to an entry point

Threads  == 1..NumThreads
KeyBytes == {1, 2}
Keys     == UNION {[1..n -> KeyBytes] : n \in 0..MaxKeyLen}
\* the (name, implementation) pairs the host calls create with;
\* the name <<1, 0, 2>> has an interior NUL
CreateArgs == {<<<<1>>, "PrefixOne">>, <<<<2, 1>>, "SkipFirst">>,
               <<<<1>>, "Static">>, <<<<1, 0, 2>>, "PrefixOne">>}
PrefixLens == {1}

\* ------------------------------------------------------------- addresses
\* The allocator hands out addresses that are not live; the model gives the
\* three allocations of handle h fixed, pairwise distinct addresses.
FnsAddr(h)   == 10 * h + 1
NameAddr(h)  == 10 * h + 2
StateAddr(h) == 10 * h + 3
\* the engine-owned buffer holding the key of thread t's current request
KeyAddr(t)   == 100 * t
\* read-only data of the program image (a &'static [u8])
StaticBytes  == <<2, 2>>
StaticAddr   == 100 * (NumThreads + 1)

\* --------------------------------------------------------------- variables
VARIABLES heap,     \* live host allocations: address -> object
          handles,  \* host side: the SliceTransform values and their fate
          engine,   \* engine side: one registration per handle
          thr,      \* engine threads: position inside a request
          fault     \* "none", or the fatal fault the process has hit

vars == <<heap, handles, engine, thr, fault>>

\* ------------------------------------------------------------ heap objects
FnsObj(impl)      == [type |-> "Fns", name |-> 0, transform |-> 0,
                      bytes |-> <<>>, impl |-> impl]
CStringObj(bytes) == [type |-> "CString", name |-> 0, transform |-> 0,
                      bytes |-> bytes, impl |-> "none"]
SliceTransformState(name, transform) ==
    [type |-> "SliceTransformState", name |-> name, transform |-> transform,
     bytes |-> <<>>, impl |-> "none"]

Alloc(hp, a, obj) == [x \in DOMAIN hp \cup {a} |-> IF x = a THEN obj ELSE hp[x]]
Free(hp, as)      == [x \in DOMAIN hp \ as |-> hp[x]]

\* ------------------------------------------------------ name conversions
\* faulty variant: forgets the terminator
CStringNew_unterminated(bytes) ==
    IF \E i \in 1..Len(bytes) : bytes[i] = 0
    THEN [ok |-> FALSE, bytes |-> <<>>]
    ELSE [ok |-> TRUE, bytes |-> bytes]

\* CString::new: rejects any NUL in the input, else appends the terminator
CStringNew(bytes) ==
    IF \E i \in 1..Len(bytes) : bytes[i] = 0
    THEN [ok |-> FALSE, bytes |-> <<>>]
    ELSE [ok |-> TRUE, bytes |-> Append(bytes, 0)]

\* what a C reader sees at a char pointer: the bytes before the first NUL
RECURSIVE CStrRead(_)
CStrRead(buf) ==
    IF buf = <<>> \/ Head(buf) = 0 THEN <<>>
    ELSE <<Head(buf)>> \o CStrRead(Tail(buf))

\* ---------------------------------------------------------- byte memory
\* the bytes readable while thread t's request on `key` is in progress
Memory(t, key) ==
    [a \in {KeyAddr(t) + i : i \in 0..(Len(key) - 1)}
           \cup {StaticAddr + i : i \in 0..(Len(StaticBytes) - 1)} |->
        IF a >= StaticAddr THEN StaticBytes[a - StaticAddr + 1]
        ELSE key[a - KeyAddr(t) + 1]]

\* slice::from_raw_parts: a view over the foreign buffer, no copy
from_raw_parts(ptr, len) == [ptr |-> ptr, len |-> len]

\* the bytes a view denotes (0 marks an address outside readable memory)
ViewBytes(mem, v) ==
    [i \in 1..v.len |-> IF (v.ptr + i - 1) \in DOMAIN mem
                        THEN mem[v.ptr + i - 1] ELSE 0]

\* ------------------------------------------- contract implementations
\* Implementations of SliceTransformFns the host may box and hand to create:
\*   PrefixOne  in_domain: key.len() >= 1     transform: &key[..1]
\*   SkipFirst  in_domain: key[0] == 1        transform: &key[1..]
\*              in_range overridden: key.len() <= 1
\*   Static     in_domain: true               transform: a &'static [u8]
\* Indexing or slicing out of bounds panics.
Impls == {"PrefixOne", "SkipFirst", "Static"}

Panic == [panic |-> TRUE, val |-> FALSE, ptr |-> 0, len |-> 0]
RetBool(b) == [panic |-> FALSE, val |-> b, ptr |-> 0, len |-> 0]
RetView(ptr, len) == [panic |-> FALSE, val |-> FALSE, ptr |-> ptr, len |-> len]

Fns_transform(impl, mem, key) ==
    CASE impl = "PrefixOne" ->
           IF key.len < 1 THEN Panic ELSE RetView(key.ptr, 1)
      [] impl = "SkipFirst" ->
           IF key.len < 1 THEN Panic ELSE RetView(key.ptr + 1, key.len - 1)
      [] OTHER -> RetView(StaticAddr, Len(StaticBytes))

Fns_in_domain(impl, mem, key) ==
    CASE impl = "PrefixOne" -> RetBool(key.len >= 1)
      [] impl = "SkipFirst" ->
           IF key.len < 1 THEN Panic ELSE RetBool(mem[key.ptr] = 1)
      [] OTHER -> RetBool(TRUE)

\* faulty variant: the provided method answers false
default_in_range_false(key) == FALSE

\* the trait's provided method
default_in_range(key) == TRUE

Fns_in_range(impl, mem, key) ==
    CASE impl = "SkipFirst" -> RetBool(key.len <= 1)
      [] OTHER -> RetBool(default_in_range(key))

OverridesInRange(impl) == impl = "SkipFirst"

\* ------------------------------------------------ adapter entry points
\* Each returns the heap it leaves, the value handed back to the engine, the
\* value written through dest_len, and whether the contract call unwound.
\* `opaque` is the first argument (the source's `transform: *mut c_void`),
\* assumed here to address a live state.
Outcome(hp, ret, len, panic) ==
    [heap |-> hp, ret |-> ret, dest_len |-> len, panic |-> panic,
     calls |-> <<>>]

\* calls: the calls into the contract implementation the entry point made,
\* in order, each with the view it passed
Call(method, view) == [method |-> method, ptr |-> view.ptr, len |-> view.len]
Calling(calls, out) == [out EXCEPT !.calls = calls]

\* `bool as u8`
BoolAsU8(b) == IF b THEN 1 ELSE 0

\* faulty variant: takes the state by Box::from_raw instead of borrowing it
get_name_owning(hp, opaque) ==
    Outcome(Free(hp, {opaque, hp[opaque].name, hp[opaque].transform}),
            hp[opaque].name, 0, FALSE)

get_name(hp, opaque) ==
    Outcome(hp, hp[opaque].name, 0, FALSE)

\* faulty variant: frees the state's own block without running its drop glue
destructor_shallow(hp, opaque) ==
    Outcome(Free(hp, {opaque}), 0, 0, FALSE)

destructor(hp, opaque) ==
    \* Box::from_raw, dropped at the end of the statement: the drop glue
    \* releases the name, the boxed implementation and the state itself
    Outcome(Free(hp, {opaque, hp[opaque].name, hp[opaque].transform}),
            0, 0, FALSE)

\* faulty variant: asks in_domain itself before extracting the prefix
transform_gated(hp, opaque, mem, key, key_len) ==
    LET state  == hp[opaque]
        view   == from_raw_parts(key, key_len)
        dom    == Fns_in_domain(hp[state.transform].impl, mem, view)
        prefix == Fns_transform(hp[state.transform].impl, mem, view)
    IN  Calling(<<Call("in_domain", view), Call("transform", view)>>,
                IF dom.panic \/ prefix.panic THEN Outcome(hp, 0, 0, TRUE)
                ELSE Outcome(hp, prefix.ptr, prefix.len, FALSE))

\* faulty variant: reports the key's length instead of the prefix's
transform_keylen(hp, opaque, mem, key, key_len) ==
    LET state  == hp[opaque]
        view   == from_raw_parts(key, key_len)
        prefix == Fns_transform(hp[state.transform].impl, mem, view)
    IN  IF prefix.panic THEN Outcome(hp, 0, 0, TRUE)
        ELSE Outcome(hp, prefix.ptr, key_len, FALSE)

transform(hp, opaque, mem, key, key_len) ==
    LET state  == hp[opaque]
        view   == from_raw_parts(key, key_len)
        prefix == Fns_transform(hp[state.transform].impl, mem, view)
    IN  Calling(<<Call("transform", view)>>,
                IF prefix.panic THEN Outcome(hp, 0, 0, TRUE)
                ELSE Outcome(hp, prefix.ptr, prefix.len, FALSE))

\* faulty variant: answers "in domain" without asking the implementation
in_domain_always(hp, opaque, mem, key, key_len) ==
    Outcome(hp, 1, 0, FALSE)

in_domain(hp, opaque, mem, key, key_len) ==
    LET state == hp[opaque]
        view  == from_raw_parts(key, key_len)
        r     == Fns_in_domain(hp[state.transform].impl, mem, view)
    IN  Calling(<<Call("in_domain", view)>>,
                IF r.panic THEN Outcome(hp, 0, 0, TRUE)
                ELSE Outcome(hp, BoolAsU8(r.val), 0, FALSE))

\* faulty variant: takes the state by Box::from_raw instead of borrowing it
in_range_owning(hp, opaque, mem, key, key_len) ==
    LET state == hp[opaque]
        view  == from_raw_parts(key, key_len)
        r     == Fns_in_range(hp[state.transform].impl, mem, view)
    IN  IF r.panic THEN Outcome(hp, 0, 0, TRUE)
        ELSE Outcome(Free(hp, {opaque, state.name, state.transform}),
                     BoolAsU8(r.val), 0, FALSE)

\* faulty variant: asks the implementation's in_domain (a copy of the
\* in_domain entry point left unedited)
in_range_copied(hp, opaque, mem, key, key_len) ==
    LET state == hp[opaque]
        view  == from_raw_parts(key, key_len)
        r     == Fns_in_domain(hp[state.transform].impl, mem, view)
    IN  Calling(<<Call("in_domain", view)>>,
                IF r.panic THEN Outcome(hp, 0, 0, TRUE)
                ELSE Outcome(hp, BoolAsU8(r.val), 0, FALSE))

in_range(hp, opaque, mem, key, key_len) ==
    LET state == hp[opaque]
        view  == from_raw_parts(key, key_len)
        r     == Fns_in_range(hp[state.transform].impl, mem, view)
    IN  Calling(<<Call("in_range", view)>>,
                IF r.panic THEN Outcome(hp, 0, 0, TRUE)
                ELSE Outcome(hp, BoolAsU8(r.val), 0, FALSE))

\* the engine calls whatever function the slot holds
Dispatch(fn, hp, opaque, mem, key, key_len) ==
    CASE fn = "get_name"   -> get_name(hp, opaque)
      [] fn = "destructor" -> destructor(hp, opaque)
      [] fn = "transform"  -> transform(hp, opaque, mem, key, key_len)
      [] fn = "in_domain"  -> in_domain(hp, opaque, mem, key, key_len)
      [] OTHER             -> in_range(hp, opaque, mem, key, key_len)

\* ------------------------------------------------- engine registrations
\* What the engine keeps for a handle: the opaque pointer and the callback
\* table (custom), or nothing of the host's (built-in).
\* installed: the host has moved the handle into an engine configuration;
\* destroyed: the engine has given the handle up; used: a slot was called
Registration(kind, state, dtor, xform, indom, inrng, nm, len) ==
    [kind |-> kind, state |-> state, destructor |-> dtor,
     transform |-> xform, in_domain |-> indom,
     in_range |-> inrng, name |-> nm, len |-> len,
     installed |-> FALSE, destroyed |-> FALSE, used |-> FALSE]

\* arguments in the order of the call in create: the opaque pointer, then the
\* destructor, transform, in-domain, in-range and name callbacks
rocksdb_slicetransform_create(state, dtor, xform, indom, inrng, nm) ==
    Registration("custom", state, dtor, xform, indom, inrng, nm, 0)

rocksdb_slicetransform_create_fixed_prefix(len) ==
    Registration("fixed_prefix", 0, "none", "none", "none", "none", "none", len)

rocksdb_slicetransform_create_noop ==
    Registration("noop", 0, "none", "none", "none", "none", "none", 0)

\* ------------------------------------------------------- constructors
\* Each returns the heap it leaves and the registration behind the handle's
\* `inner`; h only selects the addresses the allocator hands out.
Built(hp, inner)  == [panicked |-> FALSE, heap |-> hp, inner |-> <<inner>>]

\* faulty variant: boxes the state before the name is converted, so a name
\* that is refused leaves the state behind
create_leaky(hp, h, name, fns) ==
    LET c_name == CStringNew(name)
        hp1    == Alloc(hp, StateAddr(h),
                        SliceTransformState(NameAddr(h), fns))
    IN  IF ~c_name.ok
        THEN [panicked |-> TRUE, heap |-> hp1, inner |-> <<>>]
        ELSE Built(Alloc(hp1, NameAddr(h), CStringObj(c_name.bytes)),
                   rocksdb_slicetransform_create(StateAddr(h), "destructor",
                       "transform", "in_domain", "in_range", "get_name"))

\* faulty variant: passes in_range and in_domain in each other's place
create_swapped(hp, h, name, fns) ==
    LET c_name == CStringNew(name)
    IN  IF ~c_name.ok
        THEN [panicked |-> TRUE, heap |-> Free(hp, {fns}), inner |-> <<>>]
        ELSE LET hp1   == Alloc(hp, NameAddr(h), CStringObj(c_name.bytes))
                 hp2   == Alloc(hp1, StateAddr(h),
                                SliceTransformState(NameAddr(h), fns))
             IN  Built(hp2,
                       rocksdb_slicetransform_create(StateAddr(h),
                           "destructor", "transform", "in_range",
                           "in_domain", "get_name"))

\* faulty variant: registers the address the state had before it was moved
\* into its box
create_moved(hp, h, name, fns) ==
    LET c_name == CStringNew(name)
    IN  IF ~c_name.ok
        THEN [panicked |-> TRUE, heap |-> Free(hp, {fns}), inner |-> <<>>]
        ELSE LET hp1   == Alloc(hp, NameAddr(h), CStringObj(c_name.bytes))
                 hp2   == Alloc(hp1, StateAddr(h),
                                SliceTransformState(NameAddr(h), fns))
             IN  Built(hp2,
                       rocksdb_slicetransform_create(StateAddr(h) + 1,
                           "destructor", "transform", "in_domain",
                           "in_range", "get_name"))

create(hp, h, name, fns) ==
    LET c_name == CStringNew(name)
    IN  IF ~c_name.ok
        THEN \* unwrap panics; the unwind drops the `fns` argument
             [panicked |-> TRUE, heap |-> Free(hp, {fns}), inner |-> <<>>]
        ELSE LET hp1   == Alloc(hp, NameAddr(h), CStringObj(c_name.bytes))
                 proxy == StateAddr(h)
                 hp2   == Alloc(hp1, proxy,
                                SliceTransformState(NameAddr(h), fns))
             IN  Built(hp2,
                       rocksdb_slicetransform_create(proxy, "destructor",
                           "transform", "in_domain", "in_range", "get_name"))

create_fixed_prefix(hp, len) ==
    Built(hp, rocksdb_slicetransform_create_fixed_prefix(len))

\* faulty variant: boxes an empty state and registers the adapter's callbacks
create_noop_boxed(hp) ==
    Built(Alloc(hp, StateAddr(0), SliceTransformState(0, 0)),
          Registration("noop", StateAddr(0), "destructor", "transform",
                       "in_domain", "in_range", "get_name", 0))

create_noop(hp) ==
    Built(hp, rocksdb_slicetransform_create_noop)

\* ------------------------------------------------------------- threads
\* pc: "idle", "entered" (inside an entry point), "returned" (back in the
\* engine with the result), "unwinding" (a panic is leaving the entry point);
\* panicked: the contract implementation panicked during the current call
\* calls: the contract calls made by the entry point that last ran
Idle == [pc |-> "idle", op |-> "none", h |-> 0, slot |-> "none",
         key |-> <<>>, ret |-> 0, len |-> 0, panicked |-> FALSE,
         calls |-> <<>>]

\* host-side record of a handle: its fate and the arguments it was built from
Handle(kind, name, impl) ==
    [status |-> "held", kind |-> kind, name |-> name, impl |-> impl]

Init ==
    /\ heap = <<>>
    /\ handles = <<>>
    /\ engine = <<>>
    /\ thr = [t \in Threads |-> Idle]
    /\ fault = "none"

\* ---------------------------------------------------------- host actions
\* SliceTransform::create(name, Box::new(impl))
HostCreate(name, impl) ==
    /\ fault = "none"
    /\ Len(engine) < MaxHandles
    /\ LET h   == Len(engine) + 1
           hp0 == Alloc(heap, FnsAddr(h), FnsObj(impl))
           r   == create(hp0, h, name, FnsAddr(h))
       IN  /\ heap' = r.heap
           /\ IF r.panicked
              THEN /\ fault' = "create_panicked"
                   /\ UNCHANGED <<handles, engine>>
              ELSE /\ engine' = engine \o r.inner
                   /\ handles' = Append(handles, Handle("custom", name, impl))
                   /\ fault' = fault
    /\ UNCHANGED thr

HostCreateFixedPrefix(len) ==
    /\ fault = "none"
    /\ Len(engine) < MaxHandles
    /\ LET r == create_fixed_prefix(heap, len)
       IN  /\ heap' = r.heap
           /\ engine' = engine \o r.inner
           /\ handles' = Append(handles, Handle("fixed_prefix", <<>>, "none"))
    /\ UNCHANGED <<thr, fault>>

HostCreateNoop ==
    /\ fault = "none"
    /\ Len(engine) < MaxHandles
    /\ LET r == create_noop(heap)
       IN  /\ heap' = r.heap
           /\ engine' = engine \o r.inner
           /\ handles' = Append(handles, Handle("noop", <<>>, "none"))
    /\ UNCHANGED <<thr, fault>>

\* faulty variant: a Drop impl that reclaims the state behind the handle
drop_releasing(hp, inner) ==
    IF inner.state \in DOMAIN hp
    THEN Free(hp, {inner.state, hp[inner.state].name,
                   hp[inner.state].transform})
    ELSE hp

\* what letting a SliceTransform value go out of scope does to the heap:
\* there is no Drop impl, so nothing
drop_SliceTransform(hp, inner) == hp

HostDrop(h) ==
    /\ fault = "none"
    /\ h \in DOMAIN handles
    /\ handles[h].status = "held"
    /\ handles' = [handles EXCEPT ![h].status = "dropped"]
    /\ heap' = drop_SliceTransform(heap, engine[h])
    /\ UNCHANGED <<engine, thr, fault>>

\* the handle is moved into an engine configuration (a prefix extractor);
\* from then on the engine uses and eventually destroys it
HostInstall(h) ==
    /\ fault = "none"
    /\ h \in DOMAIN handles
    /\ handles[h].status = "held"
    /\ handles' = [handles EXCEPT ![h].status = "moved"]
    /\ engine' = [engine EXCEPT ![h].installed = TRUE]
    /\ UNCHANGED <<heap, thr, fault>>

\* -------------------------------------------------------- engine actions
\* Requests an engine thread makes of a custom transform:
\*   "insert"   a key insertion: the in-domain slot, then (only when that
\*              returned non-zero) the transform slot on the same key
\*   "name"     the name slot
\*   "in_range" the in-range slot
Ops == {"insert", "name", "in_range"}

FirstSlot(op) == IF op = "insert" THEN "in_domain" ELSE op

InFlight(h) == \E t \in Threads : thr[t].pc # "idle" /\ thr[t].h = h

\* faulty variant: a per-handle lock taken on entry, so a call waits while
\* another call on the same handle is in progress
Invoke_locked(t, h, op, key) ==
    /\ ~InFlight(h)
    /\ thr[t].pc = "idle"
    /\ op = "name" => key = <<>>
    /\ thr' = [thr EXCEPT ![t] = [pc |-> "entered", op |-> op, h |-> h,
                                  slot |-> FirstSlot(op), key |-> key,
                                  ret |-> 0, len |-> 0,
                                  panicked |-> FALSE, calls |-> <<>>]]
    /\ engine' = [engine EXCEPT ![h].used = TRUE]
    /\ UNCHANGED <<heap, handles, fault>>

\* thread t calls through a slot of handle h: control is inside the entry
\* point, which has cast the opaque pointer and built the key view
Invoke(t, h, op, key) ==
    /\ thr[t].pc = "idle"
    /\ op = "name" => key = <<>>
    /\ thr' = [thr EXCEPT ![t] = [pc |-> "entered", op |-> op, h |-> h,
                                  slot |-> FirstSlot(op), key |-> key,
                                  ret |-> 0, len |-> 0,
                                  panicked |-> FALSE, calls |-> <<>>]]
    /\ engine' = [engine EXCEPT ![h].used = TRUE]
    /\ UNCHANGED <<heap, handles, fault>>

EngineBegin(t, h, op, key) ==
    /\ fault = "none"
    /\ h \in DOMAIN engine
    /\ engine[h].kind = "custom"
    /\ engine[h].installed
    /\ ~engine[h].destroyed
    /\ Invoke(t, h, op, key)

\* faulty variant: the adapter keeps a record of released states and answers
\* a call on one with 0 instead of touching it
AdapterRun_checked(t) ==
    /\ fault = "none"
    /\ thr[t].pc = "entered"
    /\ LET r      == engine[thr[t].h]
           opaque == r.state
           fn     == r[thr[t].slot]
       IN  IF opaque \notin DOMAIN heap
           THEN /\ thr' = [thr EXCEPT ![t].pc = "returned"]
                /\ UNCHANGED <<heap, fault>>
           ELSE LET out == Dispatch(fn, heap, opaque,
                                    Memory(t, thr[t].key),
                                    KeyAddr(t), Len(thr[t].key))
                IN  IF out.panic
                    THEN /\ \E f \in {"unwind_into_engine", "abort"} :
                                fault' = f
                         /\ thr' = [thr EXCEPT ![t].pc = "unwinding",
                                               ![t].panicked = TRUE]
                         /\ heap' = heap
                    ELSE /\ heap' = out.heap
                         /\ thr' = [thr EXCEPT ![t].pc = "returned",
                                               ![t].ret = out.ret,
                                               ![t].len = out.dest_len,
                                               ![t].calls = out.calls]
                         /\ fault' = fault
    /\ UNCHANGED <<handles, engine>>

\* the body of the entry point runs: it reads the state through the opaque
\* pointer and calls into the contract implementation
AdapterRun(t) ==
    /\ fault = "none"
    /\ thr[t].pc = "entered"
    /\ LET r      == engine[thr[t].h]
           opaque == r.state
           fn     == r[thr[t].slot]
       IN  IF opaque \notin DOMAIN heap
           THEN \* the state was released: the read is undefined behaviour
                /\ fault' = "use_after_free"
                /\ UNCHANGED <<heap, thr>>
           ELSE LET out == Dispatch(fn, heap, opaque,
                                    Memory(t, thr[t].key),
                                    KeyAddr(t), Len(thr[t].key))
                IN  IF out.panic
                    THEN \* nothing catches the unwind inside an
                         \* extern "C" function: it either runs into the
                         \* engine's frames or the process is aborted
                         /\ \E f \in {"unwind_into_engine", "abort"} :
                                fault' = f
                         /\ thr' = [thr EXCEPT ![t].pc = "unwinding",
                                               ![t].panicked = TRUE]
                         /\ heap' = heap
                    ELSE /\ heap' = out.heap
                         /\ thr' = [thr EXCEPT ![t].pc = "returned",
                                               ![t].ret = out.ret,
                                               ![t].len = out.dest_len,
                                               ![t].calls = out.calls]
                         /\ fault' = fault
    /\ UNCHANGED <<handles, engine>>

\* insertion pipeline: the in-domain slot said yes, so the engine asks for
\* the prefix of the same key
EngineCallTransform(t) ==
    /\ fault = "none"
    /\ thr[t].pc = "returned"
    /\ thr[t].op = "insert"
    /\ thr[t].slot = "in_domain"
    /\ thr[t].ret # 0
    /\ thr' = [thr EXCEPT ![t].pc = "entered", ![t].slot = "transform",
                          ![t].ret = 0, ![t].len = 0, ![t].calls = <<>>]
    /\ UNCHANGED <<heap, handles, engine, fault>>

\* the request is complete; the key buffer and the returned view are dead
EngineFinish(t) ==
    /\ fault = "none"
    /\ thr[t].pc = "returned"
    /\ ~(thr[t].op = "insert" /\ thr[t].slot = "in_domain" /\ thr[t].ret # 0)
    /\ thr' = [thr EXCEPT ![t] = Idle]
    /\ UNCHANGED <<heap, handles, engine, fault>>

\* the engine gives up handle h; for a custom transform it calls through the
\* destructor slot, for a built-in there is no callback to call
Release(h) ==
    /\ LET r == engine[h]
       IN  IF r.kind # "custom"
           THEN UNCHANGED <<heap, fault>>
           ELSE IF r.state \notin DOMAIN heap
           THEN \* Box::from_raw on a released state: a double free
                /\ fault' = "double_free"
                /\ heap' = heap
           ELSE /\ heap' = Dispatch(r.destructor, heap, r.state,
                                    <<>>, 0, 0).heap
                /\ fault' = fault
    /\ engine' = [engine EXCEPT ![h].destroyed = TRUE]
    /\ UNCHANGED <<handles, thr>>

\* the engine's contract: destroy once, after every call on h has completed
EngineDestroy(h) ==
    /\ fault = "none"
    /\ h \in DOMAIN engine
    /\ engine[h].installed
    /\ ~engine[h].destroyed
    /\ ~InFlight(h)
    /\ Release(h)

Next ==
    \/ \E a \in CreateArgs : HostCreate(a[1], a[2])
    \/ \E len \in PrefixLens : HostCreateFixedPrefix(len)
    \/ HostCreateNoop
    \/ \E h \in 1..MaxHandles : HostDrop(h)
    \/ \E h \in 1..MaxHandles : HostInstall(h)
    \/ \E t \in Threads, h \in 1..MaxHandles, op \in Ops, key \in Keys :
           EngineBegin(t, h, op, key)
    \/ \E t \in Threads : AdapterRun(t)
    \/ \E t \in Threads : EngineCallTransform(t)
    \/ \E t \in Threads : EngineFinish(t)
    \/ \E h \in 1..MaxHandles : EngineDestroy(h)

Spec == Init /\ [][Next]_vars

\* ================================================================ claims
Custom(h)    == engine[h].kind = "custom"
StateLive(h) == engine[h].state \in DOMAIN heap
IsState(hp, p) == p \in DOMAIN hp /\ hp[p].type = "SliceTransformState"

\* the step is the engine calling through h's destructor slot
DestroyStep(h) ==
    /\ ~engine[h].destroyed
    /\ engine'[h].destroyed
    /\ engine[h].destructor = "destructor"
    /\ handles' = handles

C2_FaultContained ==
    /\ fault \notin {"unwind_into_engine", "abort"}
    /\ \A t \in Threads :
          thr[t].panicked => (thr[t].pc = "returned" /\ thr[t].ret = 0)

\* C3: the engine destroys a handle only when no call on it is in progress,
\* and no entry point ever runs on a released Transform State.
C3_NoUseAfterFree ==
    /\ fault # "use_after_free"
    /\ \A h \in DOMAIN engine : engine[h].destroyed => ~InFlight(h)
    /\ \A t \in Threads :
          thr[t].pc \in {"entered", "returned"} =>
              /\ StateLive(thr[t].h)
              /\ IsState(heap, engine[thr[t].h].state)

C3_Witness ==
    \E h1, h2 \in DOMAIN engine :
        /\ Custom(h1) /\ engine[h1].destroyed /\ engine[h1].used
        /\ h2 # h1 /\ InFlight(h2)

\* what the contract implementation behind handle h answers for the key of
\* thread t's request
ContractInDomain(t) ==
    Fns_in_domain(handles[thr[t].h].impl, Memory(t, thr[t].key),
                  from_raw_parts(KeyAddr(t), Len(thr[t].key)))

ContractTransform(t) ==
    Fns_transform(handles[thr[t].h].impl, Memory(t, thr[t].key),
                  from_raw_parts(KeyAddr(t), Len(thr[t].key)))

\* C4: whenever the insertion pipeline is in (or back from) the transform
\* slot with key K, the contract's in_domain holds of K.
C4_TransformOnlyInDomain ==
    \A t \in Threads :
        (thr[t].pc # "idle" /\ thr[t].op = "insert"
                            /\ thr[t].slot = "transform") =>
            (~ContractInDomain(t).panic /\ ContractInDomain(t).val)

C4_Witness ==
    \E t1, t2 \in Threads :
        /\ thr[t1].pc = "returned" /\ thr[t1].slot = "transform"
        /\ thr[t2].pc = "returned" /\ thr[t2].op = "insert"
        /\ thr[t2].slot = "in_domain" /\ thr[t2].ret = 0

\* C5: the pointer a name call returns addresses the bytes of the name given
\* to create followed by one NUL, and a C reader sees exactly that name.
C5_NameRoundTrip ==
    \A t \in Threads :
        (thr[t].pc = "returned" /\ thr[t].slot = "name") =>
            /\ thr[t].ret \in DOMAIN heap
            /\ heap[thr[t].ret].bytes = handles[thr[t].h].name \o <<0>>
            /\ CStrRead(heap[thr[t].ret].bytes) = handles[thr[t].h].name

C5_Witness ==
    \E t1, t2 \in Threads :
        /\ thr[t1].pc = "returned" /\ thr[t1].slot = "name"
        /\ thr[t2].pc = "returned" /\ thr[t2].slot = "transform"
        /\ thr[t2].h = thr[t1].h
        /\ Len(handles[thr[t1].h].name) > 1

\* the view [ptr, len] lies inside the key buffer of thread t's request
WithinKey(t, ptr, len) ==
    /\ KeyAddr(t) <= ptr
    /\ ptr + len <= KeyAddr(t) + Len(thr[t].key)

\* re-slicing the key at the view's offset and length gives the view's bytes
ResliceEqual(t, ptr, len) ==
    LET off == ptr - KeyAddr(t)
    IN  /\ WithinKey(t, ptr, len)
        /\ SubSeq(thr[t].key, off + 1, off + len)
               = ViewBytes(Memory(t, thr[t].key), from_raw_parts(ptr, len))

TransformReturned(t) ==
    thr[t].pc = "returned" /\ thr[t].op = "insert" /\ thr[t].slot = "transform"

\* C6 (as stated): for every key in the domain, the pointer and length the
\* transform entry point hands back denote a sub-range of the key's storage.
C6_SubRangeOfKey ==
    \A t \in Threads :
        TransformReturned(t) => ResliceEqual(t, thr[t].ret, thr[t].len)

\* C6 (amended): the same, for every call in which the contract
\* implementation returned a view that lies inside the key it was given; the
\* entry point hands back that view, pointer and length unchanged.
C6_SubRangeWhenBorrowed ==
    \A t \in Threads :
        (/\ TransformReturned(t)
         /\ WithinKey(t, ContractTransform(t).ptr, ContractTransform(t).len))
        => ResliceEqual(t, thr[t].ret, thr[t].len)

C6_Witness ==
    \E t \in Threads :
        /\ TransformReturned(t)
        /\ thr[t].ret > KeyAddr(t)
        /\ thr[t].len >= 1
        /\ WithinKey(t, thr[t].ret, thr[t].len)

\* C7: with the trait's own in_range, the in-range entry point answers 1 for
\* every key, the empty key included.
C7_DefaultInRange ==
    \A t \in Threads :
        (/\ thr[t].pc = "returned" /\ thr[t].slot = "in_range"
         /\ ~OverridesInRange(handles[thr[t].h].impl))
        => thr[t].ret = 1

C7_Witness ==
    \E t \in Threads :
        /\ thr[t].pc = "returned" /\ thr[t].slot = "in_range"
        /\ ~OverridesInRange(handles[thr[t].h].impl)
        /\ thr[t].key = <<>>
        /\ engine[thr[t].h].used

\* C8: a custom transform destroyed without ever having been called leaves
\* none of its three allocations behind, and the destroy is no double free.
C8_CreateDestroyReleasesAll ==
    \A h \in DOMAIN engine :
        (Custom(h) /\ engine[h].destroyed /\ ~engine[h].used) =>
            /\ {StateAddr(h), NameAddr(h), FnsAddr(h)} \cap DOMAIN heap = {}
            /\ fault # "double_free"

C8_Witness ==
    \E h \in DOMAIN engine :
        /\ Custom(h) /\ engine[h].destroyed /\ ~engine[h].used
        /\ fault = "none"

\* C9: a step in which a name, transform, in-domain or in-range call runs to
\* its return leaves the state it was called on allocated, at the same
\* address, with the same fields and the same name bytes; the step in which a
\* custom handle is destroyed is the one that ends with its state released.
C9_EntryPointsBorrow ==
    [][ /\ \A t \in Threads :
              (thr[t].pc = "entered" /\ thr'[t].pc = "returned") =>
                  LET p == engine[thr[t].h].state
                  IN  /\ p \in DOMAIN heap'
                      /\ heap'[p] = heap[p]
                      /\ heap[p].name \in DOMAIN heap'
                      /\ heap'[heap[p].name] = heap[heap[p].name]
                      /\ DOMAIN heap' = DOMAIN heap
        /\ \A h \in DOMAIN engine :
              (Custom(h) /\ ~engine[h].destroyed /\ engine'[h].destroyed) =>
                  (engine[h].state \in DOMAIN heap
                   /\ engine[h].state \notin DOMAIN heap')
      ]_vars

C9_Witness ==
    \E h \in DOMAIN engine :
        /\ Custom(h) /\ engine[h].destroyed /\ engine[h].used
        /\ \E t \in Threads : thr[t].pc = "returned" /\ thr[t].slot = "name"

Builtin(kind) == kind \in {"fixed_prefix", "noop"}

\* C10: a step that builds a handle with create_fixed_prefix or create_noop
\* leaves the heap as it was, and the registration behind the new handle has
\* no opaque pointer and no callback in any slot.
C10_BuiltinsAllocateNothing ==
    [][ (Len(handles') = Len(handles) + 1
         /\ Builtin(handles'[Len(handles')].kind)) =>
            LET r == engine'[Len(engine')]
            IN  /\ heap' = heap
                /\ r.kind = handles'[Len(handles')].kind
                /\ r.state = 0
                /\ r.destructor = "none" /\ r.transform = "none"
                /\ r.in_domain = "none" /\ r.in_range = "none"
                /\ r.name = "none"
      ]_vars

C10_Witness ==
    \E h1, h2 \in DOMAIN engine :
        /\ Custom(h1) /\ StateLive(h1) /\ h1 < h2
        /\ engine[h2].kind = "noop"

\* thread t is inside a key-taking entry point of handle h
InsideContract(t, h) ==
    /\ thr[t].pc = "entered"
    /\ thr[t].h = h
    /\ thr[t].slot \in {"transform", "in_domain", "in_range"}

\* C11: while one thread is inside an entry point of a handle, any idle
\* thread can still enter an entry point of the same handle, and a thread
\* that is inside can always run on: nothing in the adapter makes one call
\* wait for another.
C11_NoMutualExclusion ==
    \A t \in Threads, h \in DOMAIN engine :
        /\ (/\ fault = "none" /\ thr[t].pc = "idle"
            /\ Custom(h) /\ engine[h].installed /\ ~engine[h].destroyed
            /\ InFlight(h))
           => /\ ENABLED EngineBegin(t, h, "insert", <<>>)
              /\ ENABLED EngineBegin(t, h, "in_range", <<>>)
        /\ (fault = "none" /\ InsideContract(t, h)) => ENABLED AdapterRun(t)

C11_Witness ==
    \E t1, t2 \in Threads, h \in DOMAIN engine :
        /\ t1 # t2
        /\ InsideContract(t1, h) /\ thr[t1].slot = "transform"
        /\ InsideContract(t2, h) /\ thr[t2].slot = "transform"

\* C12: the opaque pointer registered for a handle never changes and, until
\* the handle is destroyed, addresses the state built by create (with its name
\* and implementation still in place); a step that changes or removes a state
\* is a step of an engine thread inside an entry point or a destroy, never a
\* step of the host.
C12_StateOnlyThroughEngine ==
    [][ /\ \A h \in DOMAIN engine : engine'[h].state = engine[h].state
        /\ \A h \in DOMAIN engine' :
              (engine'[h].kind = "custom" /\ ~engine'[h].destroyed) =>
                  LET p == engine'[h].state
                  IN  /\ IsState(heap', p)
                      /\ p = StateAddr(h)
                      /\ heap'[p].name \in DOMAIN heap'
                      /\ heap'[heap'[p].name].bytes = handles'[h].name \o <<0>>
                      /\ heap'[p].transform \in DOMAIN heap'
                      /\ heap'[heap'[p].transform].impl = handles'[h].impl
        /\ \A p \in DOMAIN heap :
              (IsState(heap, p) /\ (p \notin DOMAIN heap' \/ heap'[p] # heap[p]))
                  => /\ handles' = handles
                     /\ Len(engine') = Len(engine)
                     /\ \/ \E t \in Threads : thr[t].pc = "entered"
                                              /\ thr'[t] # thr[t]
                        \/ \E h \in DOMAIN engine : DestroyStep(h)
      ]_vars

C12_Witness ==
    \E h \in DOMAIN engine, t \in Threads :
        /\ Custom(h) /\ handles[h].status = "moved" /\ ~engine[h].destroyed
        /\ thr[t].h = h /\ thr[t].pc = "returned" /\ thr[t].slot = "transform"
        /\ engine[h].state = StateAddr(h) /\ StateLive(h)

\* ------------------------------------------------ an engine that misuses
\* The same program driven by an engine integration that breaks the ordering
\* contract: it may call an entry point of a handle it has destroyed, and may
\* destroy a handle again or while calls on it are in progress.
MisuseCall(t, h, op, key) ==
    /\ fault = "none"
    /\ h \in DOMAIN engine
    /\ engine[h].kind = "custom"
    /\ engine[h].destroyed
    /\ Invoke(t, h, op, key)

MisuseDestroy(h) ==
    /\ fault = "none"
    /\ h \in DOMAIN engine
    /\ engine[h].kind = "custom"
    /\ engine[h].installed
    /\ engine[h].destroyed \/ InFlight(h)
    /\ Release(h)

\* the host only builds custom transforms and installs them
NextMisuse ==
    \/ \E a \in CreateArgs : HostCreate(a[1], a[2])
    \/ \E h \in 1..MaxHandles : HostInstall(h)
    \/ \E t \in Threads, h \in 1..MaxHandles, op \in Ops, key \in Keys :
           EngineBegin(t, h, op, key)
    \/ \E t \in Threads : AdapterRun(t)
    \/ \E t \in Threads : EngineCallTransform(t)
    \/ \E t \in Threads : EngineFinish(t)
    \/ \E h \in 1..MaxHandles : EngineDestroy(h)
    \/ \E t \in Threads, h \in 1..MaxHandles, op \in Ops :
           MisuseCall(t, h, op, <<>>)
    \/ \E h \in 1..MaxHandles : MisuseDestroy(h)

SpecMisuse == Init /\ [][NextMisuse]_vars

\* the step is a second destroy of h: it changes nothing but the fault
DestroyedAgain(h) ==
    /\ Custom(h) /\ engine[h].destroyed /\ ~StateLive(h)
    /\ fault = "none" /\ fault' = "double_free"

\* C13: nothing records that a state was destroyed.  A call on a released
\* state is never answered (no return value, no error value): the call stays
\* enabled, and running it is the access to the released state.  A destroy of
\* a released state stays enabled too, and is a double free.
C13_MisuseUnchecked ==
    [][ /\ \A t \in Threads :
              (fault = "none" /\ thr[t].pc = "entered"
                              /\ ~StateLive(thr[t].h)) =>
                  /\ ENABLED AdapterRun(t)
                  /\ thr'[t] = thr[t]
        /\ \A h \in DOMAIN engine :
              (fault = "none" /\ Custom(h) /\ engine[h].destroyed) =>
                  /\ ENABLED MisuseDestroy(h)
                  /\ \A t \in Threads : thr[t].pc = "idle" =>
                         ENABLED MisuseCall(t, h, "name", <<>>)
        /\ (fault = "none" /\ fault' = "use_after_free") =>
              \E t \in Threads :
                  thr[t].pc = "entered" /\ ~StateLive(thr[t].h)
        /\ (fault = "none" /\ fault' = "double_free") =>
              \E h \in DOMAIN engine : DestroyedAgain(h)
      ]_vars

C13_Witness ==
    /\ fault = "use_after_free"
    /\ \E t \in Threads :
          /\ thr[t].pc = "entered" /\ thr[t].slot = "name"
          /\ engine[thr[t].h].destroyed

\* the view over exactly the key_len bytes of thread t's key
KeyView(t) == from_raw_parts(KeyAddr(t), Len(thr[t].key))

\* the function the slot of thread t's current call holds
SlotFn(t) == engine[thr[t].h][thr[t].slot]

\* C14: a completed call of the transform entry point has called the
\* contract's transform once, with the view over exactly key_len bytes of the
\* key, and nothing else; it wrote the returned view's length to dest_len and
\* returned the returned view's start address.
C14_TransformMarshalling ==
    \A t \in Threads :
        (thr[t].pc = "returned" /\ SlotFn(t) = "transform") =>
            /\ thr[t].calls = <<Call("transform", KeyView(t))>>
            /\ thr[t].len = ContractTransform(t).len
            /\ thr[t].ret = ContractTransform(t).ptr

C14_Witness ==
    \E t \in Threads :
        /\ thr[t].pc = "returned" /\ SlotFn(t) = "transform"
        /\ Len(thr[t].key) = MaxKeyLen
        /\ thr[t].len < Len(thr[t].key)
        /\ handles[thr[t].h].impl = "PrefixOne"

ContractInRange(t) ==
    Fns_in_range(handles[thr[t].h].impl, Memory(t, thr[t].key), KeyView(t))

\* C15: a completed call of the in-domain (in-range) entry point returns 1
\* when the contract's in_domain (in_range) answers true for the key and 0
\* when it answers false, and has called that one method once.
C15_BooleanMarshalling ==
    \A t \in Threads :
        /\ (thr[t].pc = "returned" /\ SlotFn(t) = "in_domain") =>
              /\ thr[t].ret = (IF ContractInDomain(t).val THEN 1 ELSE 0)
              /\ thr[t].calls = <<Call("in_domain", KeyView(t))>>
        /\ (thr[t].pc = "returned" /\ SlotFn(t) = "in_range") =>
              /\ thr[t].ret = (IF ContractInRange(t).val THEN 1 ELSE 0)
              /\ thr[t].calls = <<Call("in_range", KeyView(t))>>

C15_Witness ==
    \E t1, t2 \in Threads :
        /\ thr[t1].pc = "returned" /\ SlotFn(t1) = "in_range"
        /\ thr[t1].ret = 0
        /\ thr[t2].pc = "returned" /\ SlotFn(t2) = "in_domain"
        /\ thr[t2].ret = 1 /\ thr[t2].key = thr[t1].key
        /\ thr[t2].h = thr[t1].h

Allocations(h) == {StateAddr(h), NameAddr(h), FnsAddr(h)}

\* C16: the host releases nothing.  While the engine has not called the
\* destructor slot of a custom handle, its state, name and implementation stay
\* allocated; a handle discarded without being installed stays discarded, the
\* engine never gets to destroy it, and its state is allocated after every
\* later step.
C16_ReleaseOnlyByEngine ==
    [][ \A h \in DOMAIN engine' :
            Custom(h)' =>
                /\ ~engine'[h].destroyed => Allocations(h) \subseteq DOMAIN heap'
                /\ handles'[h].status = "dropped" => ~engine'[h].destroyed
                /\ (h \in DOMAIN handles /\ handles[h].status = "dropped") =>
                      /\ handles'[h].status = "dropped"
                      /\ ~ENABLED EngineDestroy(h)
                      /\ ~ENABLED HostInstall(h)
                /\ (h \in DOMAIN engine /\ StateLive(h) /\ ~DestroyStep(h)) =>
                      StateLive(h)'
      ]_vars

C16_Witness ==
    /\ Len(engine) = MaxHandles
    /\ \A h \in DOMAIN engine :
          /\ Custom(h) /\ handles[h].status = "dropped"
          /\ IsState(heap, engine[h].state)
    /\ \A t \in Threads : thr[t].pc = "idle"

HasNul(name) == \E i \in DOMAIN name : name[i] = 0

NewStates == {p \in DOMAIN heap' \ DOMAIN heap : IsState(heap', p)}

\* C17: create panics exactly for the names holding a NUL byte, and then it
\* has allocated no state and made no registration: the step leaves heap,
\* registrations and handles as they were.  A create step that returns a
\* handle was given a name without NUL, allocated one state and added one
\* registration.
C17_CreateNulPanicsClean ==
    [][ /\ \A a \in CreateArgs :
              LET h == Len(engine) + 1
                  r == create(Alloc(heap, FnsAddr(h), FnsObj(a[2])), h,
                              a[1], FnsAddr(h))
              IN  /\ r.panicked <=> HasNul(a[1])
                  /\ r.panicked => (r.inner = <<>> /\ r.heap = heap)
        /\ (fault = "none" /\ fault' = "create_panicked") =>
              /\ heap' = heap /\ engine' = engine /\ handles' = handles
              /\ NewStates = {}
        /\ (Len(engine') # Len(engine)
            /\ engine'[Len(engine')].kind = "custom") =>
              /\ Len(engine') = Len(engine) + 1
              /\ Len(handles') = Len(handles) + 1
              /\ ~HasNul(handles'[Len(engine')].name)
              /\ NewStates = {engine'[Len(engine')].state}
              /\ fault' = "none"
      ]_vars

C17_Witness ==
    /\ fault = "create_panicked"
    /\ \E h \in DOMAIN engine : Custom(h) /\ StateLive(h)
    /\ DOMAIN heap = UNION {Allocations(h) : h \in DOMAIN engine}

\* the entry point that answers the request an engine slot stands for
EntryPointOf(slot) == IF slot = "name" THEN "get_name" ELSE slot

\* C18: every custom registration was made by one call, carries the address
\* of the handle's own state as its opaque pointer and holds destructor,
\* transform, in_domain, in_range and get_name in the destructor, transform,
\* in-domain, in-range and name slots; so a call through a slot has run the
\* contract method of that slot's meaning.
C18_SlotsBoundByMeaning ==
    /\ Len(engine) = Len(handles)
    /\ \A h \in DOMAIN engine :
          Custom(h) =>
              /\ engine[h].state = StateAddr(h)
              /\ engine[h].destructor = "destructor"
              /\ engine[h].transform = "transform"
              /\ engine[h].in_domain = "in_domain"
              /\ engine[h].in_range = "in_range"
              /\ engine[h].name = "get_name"
    /\ \A t \in Threads :
          thr[t].pc # "idle" =>
              /\ SlotFn(t) = EntryPointOf(thr[t].slot)
              /\ (thr[t].pc = "returned" /\ thr[t].slot # "name") =>
                    thr[t].calls = <<Call(thr[t].slot, KeyView(t))>>
              /\ (thr[t].pc = "returned" /\ thr[t].slot = "name") =>
                    thr[t].calls = <<>>

C18_Witness ==
    \E t1, t2 \in Threads :
        /\ thr[t1].pc = "returned" /\ thr[t1].slot = "name"
        /\ thr[t2].pc = "returned" /\ thr[t2].slot = "in_range"
        /\ handles[thr[t2].h].impl = "SkipFirst"
        /\ \E h \in DOMAIN engine : Custom(h) /\ engine[h].destroyed
====
